---- MODULE Spec2Model ----
(***************************************************************************)
(* The streaming progress channel of the pharmacogenomics frontend: the    *)
(* useSSE hook (frontend/src/hooks/useSSE.ts, here src/frontend/src/       *)
(* main.tsx lines 72-241).                                                 *)
(*                                                                         *)
(* Text is modelled as it is on the wire and in the engine: a response     *)
(* body is a sequence of bytes (0..255), a JavaScript string is a sequence *)
(* of code points, and a JavaScript value is a tagged record.  The read    *)
(* loop sees the body in chunks cut at arbitrary byte positions.           *)
(***************************************************************************)
EXTENDS Integers, Sequences, FiniteSets, TLC

(***************************************************************************)
(* JavaScript values                                                       *)
(***************************************************************************)
JUndef == [t |-> "undefined"]
JNull == [t |-> "null"]
JBool(b) == [t |-> "boolean", b |-> b]
JNum(n) == [t |-> "number", n |-> n]
JStr(s) == [t |-> "string", s |-> s]
JObj(f) == [t |-> "object", o |-> f]

\* ToBoolean: undefined, null, false, 0 and "" are falsy, all else truthy
Truthy(v) ==
  CASE v.t = "undefined" -> FALSE
    [] v.t = "null" -> FALSE
    [] v.t = "boolean" -> v.b
    [] v.t = "number" -> v.n # 0
    [] v.t = "string" -> v.s # <<>>
    [] OTHER -> TRUE

\* a || b
JOr(a, b) == IF Truthy(a) THEN a ELSE b

\* update.key : property read; throws TypeError on null and undefined
CanGet(v) == v.t \notin {"null", "undefined"}

Get(v, key) ==
  IF v.t = "object" /\ key \in DOMAIN v.o THEN v.o[key] ELSE JUndef

(***************************************************************************)
(* String literals of the program, as code points                          *)
(***************************************************************************)
DATA_PREFIX == <<100, 97, 116, 97, 58, 32>>  \* 'data: '
K_type == <<116, 121, 112, 101>>  \* type
K_message == <<109, 101, 115, 115, 97, 103, 101>>  \* message
K_result == <<114, 101, 115, 117, 108, 116>>  \* result
T_progress == <<112, 114, 111, 103, 114, 101, 115, 115>>  \* 'progress'
T_complete == <<99, 111, 109, 112, 108, 101, 116, 101>>  \* 'complete'
T_error == <<101, 114, 114, 111, 114>>  \* 'error'
MSG_AnalysisFailed ==
  <<65, 110, 97, 108, 121, 115, 105, 115, 32, 102, 97, 105, 108, 101, 100>>
  \* 'Analysis failed'
MSG_ParseFailed ==
  <<70, 97, 105, 108, 101, 100, 32, 116, 111, 32, 112, 97, 114, 115, 101, 32,
    112, 114, 111, 103, 114, 101, 115, 115, 32, 117, 112, 100, 97, 116, 101>>
  \* 'Failed to parse progress update'
MSG_ConnectionFailed ==
  <<67, 111, 110, 110, 101, 99, 116, 105, 111, 110, 32, 102, 97, 105, 108,
    101, 100>>  \* 'Connection failed'
MSG_NoResponseBody ==
  <<78, 111, 32, 114, 101, 115, 112, 111, 110, 115, 101, 32, 98, 111, 100,
    121>>  \* 'No response body'
MSG_HTTP == <<72, 84, 84, 80, 32>>  \* 'HTTP '
MSG_ColonSpace == <<58, 32>>  \* ': '
LIT_true == <<116, 114, 117, 101>>  \* true
LIT_false == <<102, 97, 108, 115, 101>>  \* false
LIT_null == <<110, 117, 108, 108>>  \* null

NL == 10  \* '\n'
REPLACEMENT == 65533  \* U+FFFD
BOM == 65279  \* U+FEFF

(***************************************************************************)
(* Sequence helpers                                                        *)
(***************************************************************************)
\* s.startsWith(p)
StartsWith(s, p) == Len(s) >= Len(p) /\ SubSeq(s, 1, Len(p)) = p

\* s.slice(n)
Slice(s, n) == SubSeq(s, n + 1, Len(s))

\* the least element of a non-empty set of integers
Min(S) == CHOOSE x \in S : \A y \in S : x <= y

RECURSIVE SplitFrom(_, _, _)
\* the pieces of s from index i on, given the indices nl of its newlines
SplitFrom(s, i, nl) ==
  LET Cut(m) == <<SubSeq(s, i, m - 1)>> \o SplitFrom(s, m + 1, nl \ {m}) IN
  IF nl = {} THEN <<SubSeq(s, i, Len(s))>> ELSE Cut(Min(nl))

\* s.split('\n'): always at least one element, the last one the text after
\* the last newline
Split(s) == SplitFrom(s, 1, {j \in 1..Len(s) : s[j] = NL})

RECURSIVE ToDigits(_)
\* `${n}` for a non-negative integer
ToDigits(n) ==
  IF n < 10 THEN <<48 + n>> ELSE Append(ToDigits(n \div 10), 48 + (n % 10))

(***************************************************************************)
(* new TextDecoder() ; decoder.decode(value, { stream: true })             *)
(* The WHATWG UTF-8 decoder: its state survives between calls, a           *)
(* malformed sequence yields U+FFFD, a leading byte order mark is dropped. *)
(***************************************************************************)
NewDecoder ==
  [cp |-> 0, seen |-> 0, needed |-> 0, lower |-> 128, upper |-> 191,
   bomSeen |-> FALSE]

\* one code point leaves the decoder (the BOM check of the stream decode)
Emit(d, out, c) ==
  IF ~d.bomSeen /\ c = BOM
  THEN [d |-> [d EXCEPT !.bomSeen = TRUE], out |-> out]
  ELSE [d |-> [d EXCEPT !.bomSeen = TRUE], out |-> Append(out, c)]

ResetSeq(d) ==
  [d EXCEPT !.cp = 0, !.seen = 0, !.needed = 0, !.lower = 128, !.upper = 191]

\* the index after the run of bytes below 128 that starts at i
AsciiEnd(bytes, i) ==
  LET End(high) == IF high = {} THEN Len(bytes) + 1 ELSE Min(high) IN
  End({j \in i..Len(bytes) : bytes[j] > 127})

RECURSIVE DecodeFrom(_, _, _, _)
DecodeFrom(d, bytes, i, out) ==
  IF i > Len(bytes) THEN [d |-> d, out |-> out]
  ELSE
    LET b == bytes[i] IN
    IF d.needed = 0 THEN
      IF b <= 127 THEN
        \* a run of ASCII bytes passes through unchanged
        LET Run(j) == DecodeFrom([d EXCEPT !.bomSeen = TRUE], bytes, j,
                                 out \o SubSeq(bytes, i, j - 1))
        IN Run(AsciiEnd(bytes, i))
      ELSE IF b >= 194 /\ b <= 223 THEN
        DecodeFrom([d EXCEPT !.needed = 1, !.cp = b % 32], bytes, i + 1, out)
      ELSE IF b >= 224 /\ b <= 239 THEN
        DecodeFrom([d EXCEPT !.needed = 2, !.cp = b % 16,
                             !.lower = IF b = 224 THEN 160 ELSE 128,
                             !.upper = IF b = 237 THEN 159 ELSE 191],
                   bytes, i + 1, out)
      ELSE IF b >= 240 /\ b <= 244 THEN
        DecodeFrom([d EXCEPT !.needed = 3, !.cp = b % 8,
                             !.lower = IF b = 240 THEN 144 ELSE 128,
                             !.upper = IF b = 244 THEN 143 ELSE 191],
                   bytes, i + 1, out)
      ELSE
        LET e == Emit(d, out, REPLACEMENT) IN
        DecodeFrom(e.d, bytes, i + 1, e.out)
    ELSE IF b < d.lower \/ b > d.upper THEN
      \* malformed: U+FFFD, and the byte is read again as a first byte
      LET e == Emit(ResetSeq(d), out, REPLACEMENT) IN
      DecodeFrom(e.d, bytes, i, e.out)
    ELSE
      LET c == d.cp * 64 + (b % 64) IN
      IF d.seen + 1 # d.needed THEN
        DecodeFrom([d EXCEPT !.cp = c, !.seen = d.seen + 1,
                             !.lower = 128, !.upper = 191],
                   bytes, i + 1, out)
      ELSE
        LET e == Emit(ResetSeq(d), out, c) IN
        DecodeFrom(e.d, bytes, i + 1, e.out)

\* a decoder for each chunk, without stream: true: an incomplete sequence
\* at the end of the chunk becomes U+FFFD
DecodeFresh(d, bytes) ==
  LET Flush(r) ==
        [d |-> NewDecoder,
         out |-> IF r.d.needed # 0 THEN Append(r.out, REPLACEMENT) ELSE r.out]
  IN Flush(DecodeFrom(NewDecoder, bytes, 1, <<>>))

\* decoder.decode(value, { stream: true }): the new decoder state and the text
Decode(d, bytes) == DecodeFrom(d, bytes, 1, <<>>)

(***************************************************************************)
(* JSON.parse, for texts made of objects, strings without escapes,         *)
(* integers, true, false and null.  Every response body of the model lies  *)
(* in this subset or is malformed in a way the subset decides.             *)
(***************************************************************************)
IsWs(c) == c \in {32, 9, 10, 13}
IsDigit(c) == c >= 48 /\ c <= 57

RECURSIVE SkipWs(_, _)
SkipWs(s, i) == IF i <= Len(s) /\ IsWs(s[i]) THEN SkipWs(s, i + 1) ELSE i

Bad(i) == [ok |-> FALSE, v |-> JUndef, next |-> i]
Good(v, i) == [ok |-> TRUE, v |-> v, next |-> i]

RECURSIVE ScanString(_, _, _)
\* s[i] is the first character after the opening quote
ScanString(s, i, acc) ==
  IF i > Len(s) THEN Bad(i)
  ELSE IF s[i] = 34 THEN Good(JStr(acc), i + 1)
  ELSE IF s[i] = 92 \/ s[i] < 32 THEN Bad(i)
  ELSE ScanString(s, i + 1, Append(acc, s[i]))

RECURSIVE ScanDigits(_, _, _)
ScanDigits(s, i, n) ==
  IF i <= Len(s) /\ IsDigit(s[i]) THEN ScanDigits(s, i + 1, 10 * n + (s[i] - 48))
  ELSE [n |-> n, next |-> i]

\* s[i] is '-' or a digit
ScanNumber(s, i) ==
  LET neg == s[i] = 45
      j == IF neg THEN i + 1 ELSE i
      Finish(r) ==
        IF r.next <= Len(s)
           /\ (IsDigit(s[r.next]) \/ s[r.next] \in {46, 101, 69})
        THEN Bad(i)
        ELSE Good(JNum(IF neg THEN 0 - r.n ELSE r.n), r.next)
  IN
  IF j > Len(s) \/ ~IsDigit(s[j]) THEN Bad(i)
  ELSE IF s[j] = 48 THEN Finish([n |-> 0, next |-> j + 1])
  ELSE Finish(ScanDigits(s, j, 0))

ScanLiteral(s, i, lit, v) ==
  IF i + Len(lit) - 1 <= Len(s) /\ SubSeq(s, i, i + Len(lit) - 1) = lit
  THEN Good(v, i + Len(lit))
  ELSE Bad(i)

RECURSIVE ParseValue(_, _)
RECURSIVE ParseMembers(_, _, _)

\* s[i] is the first character of a member; obj holds the members so far
ParseMembers(s, i, obj) ==
  LET \* after the member's value r: '}' ends the object, ',' continues it
      AfterValue(key, r, e) ==
        IF e > Len(s) THEN Bad(i)
        \* a repeated key keeps its last value
        ELSE IF s[e] = 125 THEN Good(JObj((key :> r.v) @@ obj), e + 1)
        ELSE IF s[e] = 44
        THEN ParseMembers(s, SkipWs(s, e + 1), (key :> r.v) @@ obj)
        ELSE Bad(i)
      Value(key, r) ==
        IF ~r.ok THEN Bad(i) ELSE AfterValue(key, r, SkipWs(s, r.next))
      Colon(key, c) ==
        IF c > Len(s) \/ s[c] # 58 THEN Bad(i)
        ELSE Value(key, ParseValue(s, SkipWs(s, c + 1)))
      Key(k) == IF ~k.ok THEN Bad(i) ELSE Colon(k.v.s, SkipWs(s, k.next))
  IN
  IF i > Len(s) \/ s[i] # 34 THEN Bad(i)
  ELSE Key(ScanString(s, i + 1, <<>>))

ParseValue(s, i) ==
  IF i > Len(s) THEN Bad(i)
  ELSE IF s[i] = 123 THEN
    LET Open(j) ==
          IF j <= Len(s) /\ s[j] = 125 THEN Good(JObj(<<>>), j + 1)
          ELSE ParseMembers(s, j, <<>>)
    IN Open(SkipWs(s, i + 1))
  ELSE IF s[i] = 34 THEN ScanString(s, i + 1, <<>>)
  ELSE IF s[i] = 45 \/ IsDigit(s[i]) THEN ScanNumber(s, i)
  ELSE IF s[i] = 116 THEN ScanLiteral(s, i, LIT_true, JBool(TRUE))
  ELSE IF s[i] = 102 THEN ScanLiteral(s, i, LIT_false, JBool(FALSE))
  ELSE IF s[i] = 110 THEN ScanLiteral(s, i, LIT_null, JNull)
  ELSE Bad(i)

\* JSON.parse(text): [ok, v]; ~ok stands for the SyntaxError it throws
JSONparse(s) ==
  LET End(r) ==
        IF r.ok /\ SkipWs(s, r.next) = Len(s) + 1
        THEN [ok |-> TRUE, v |-> r.v]
        ELSE [ok |-> FALSE, v |-> JUndef]
  IN End(ParseValue(s, SkipWs(s, 1)))

(***************************************************************************)
(* Bounds of the model                                                     *)
(***************************************************************************)
\* sessions (effect runs that call connectSSE) of one hook instance
MaxSessions == 2
\* lines of a response body, when several sessions are followed
MaxLines == 1
\* lines of a response body, when one session is followed
MaxStreamLines == 3
\* lines that follow the first line of a body of the frame specification
MaxFollow == 1

(***************************************************************************)
(* The server: response bodies as bytes, one frame per line                *)
(***************************************************************************)
\* data: {"type":"progress"}
L_progress ==
  <<100, 97, 116, 97, 58, 32, 123, 34, 116, 121, 112, 101, 34, 58, 34, 112,
    114, 111, 103, 114, 101, 115, 115, 34, 125>>
\* data: {"type":"progress","step":"é"}
L_progressStep ==
  <<100, 97, 116, 97, 58, 32, 123, 34, 116, 121, 112, 101, 34, 58, 34, 112,
    114, 111, 103, 114, 101, 115, 115, 34, 44, 34, 115, 116, 101, 112, 34,
    58, 34, 195, 169, 34, 125>>
\* data: {"type":"complete","result":{"d":"w"}}
L_complete ==
  <<100, 97, 116, 97, 58, 32, 123, 34, 116, 121, 112, 101, 34, 58, 34, 99,
    111, 109, 112, 108, 101, 116, 101, 34, 44, 34, 114, 101, 115, 117, 108,
    116, 34, 58, 123, 34, 100, 34, 58, 34, 119, 34, 125, 125>>
\* data: {"type":"complete"}
L_completeNoResult ==
  <<100, 97, 116, 97, 58, 32, 123, 34, 116, 121, 112, 101, 34, 58, 34, 99,
    111, 109, 112, 108, 101, 116, 101, 34, 125>>
\* data: {"type":"complete","result":0}
L_completeZero ==
  <<100, 97, 116, 97, 58, 32, 123, 34, 116, 121, 112, 101, 34, 58, 34, 99,
    111, 109, 112, 108, 101, 116, 101, 34, 44, 34, 114, 101, 115, 117, 108,
    116, 34, 58, 48, 125>>
\* data: {"type":"error","message":"boom"}
L_error ==
  <<100, 97, 116, 97, 58, 32, 123, 34, 116, 121, 112, 101, 34, 58, 34, 101,
    114, 114, 111, 114, 34, 44, 34, 109, 101, 115, 115, 97, 103, 101, 34,
    58, 34, 98, 111, 111, 109, 34, 125>>
\* data: {"type":"error"}
L_errorNoMessage ==
  <<100, 97, 116, 97, 58, 32, 123, 34, 116, 121, 112, 101, 34, 58, 34, 101,
    114, 114, 111, 114, 34, 125>>
\* data: {"type":"error","message":""}
L_errorEmpty ==
  <<100, 97, 116, 97, 58, 32, 123, 34, 116, 121, 112, 101, 34, 58, 34, 101,
    114, 114, 111, 114, 34, 44, 34, 109, 101, 115, 115, 97, 103, 101, 34,
    58, 34, 34, 125>>
\* data: {not json
L_badJson ==
  <<100, 97, 116, 97, 58, 32, 123, 110, 111, 116, 32, 106, 115, 111, 110>>
\* data: {"type":"complete","result":1}
L_completeOne ==
  <<100, 97, 116, 97, 58, 32, 123, 34, 116, 121, 112, 101, 34, 58, 34, 99,
    111, 109, 112, 108, 101, 116, 101, 34, 44, 34, 114, 101, 115, 117, 108,
    116, 34, 58, 49, 125>>
\* a blank line
L_blank == <<>>
\* : ping
L_comment ==
  <<58, 32, 112, 105, 110, 103>>
\* data:{"type":"complete"}
L_dataNoSpace ==
  <<100, 97, 116, 97, 58, 123, 34, 116, 121, 112, 101, 34, 58, 34, 99, 111,
    109, 112, 108, 101, 116, 101, 34, 125>>
\* event: complete
L_event ==
  <<101, 118, 101, 110, 116, 58, 32, 99, 111, 109, 112, 108, 101, 116, 101>>
\* data: {"type":"result","result":1}
L_result ==
  <<100, 97, 116, 97, 58, 32, 123, 34, 116, 121, 112, 101, 34, 58, 34, 114,
    101, 115, 117, 108, 116, 34, 44, 34, 114, 101, 115, 117, 108, 116, 34,
    58, 49, 125>>
\* data: {}
L_noType ==
  <<100, 97, 116, 97, 58, 32, 123, 125>>
\* data: {"type":"error","message":"HTTP 500: "}
L_errorHttp500 ==
  <<100, 97, 116, 97, 58, 32, 123, 34, 116, 121, 112, 101, 34, 58, 34, 101,
    114, 114, 111, 114, 34, 44, 34, 109, 101, 115, 115, 97, 103, 101, 34,
    58, 34, 72, 84, 84, 80, 32, 53, 48, 48, 58, 32, 34, 125>>
\* data: {"type":"progress","step":"€😀"}
L_progressWide ==
  <<100, 97, 116, 97, 58, 32, 123, 34, 116, 121, 112, 101, 34, 58, 34, 112,
    114, 111, 103, 114, 101, 115, 115, 34, 44, 34, 115, 116, 101, 112, 34,
    58, 34, 226, 130, 172, 240, 159, 152, 128, 34, 125>>
\* statusText 'OK'
ST_OK ==
  <<79, 75>>
\* statusText 'Not Found'
ST_NotFound ==
  <<78, 111, 116, 32, 70, 111, 117, 110, 100>>
\* the TypeError message of a failed fetch
MSG_FailedToFetch ==
  <<70, 97, 105, 108, 101, 100, 32, 116, 111, 32, 102, 101, 116, 99, 104>>
RECURSIVE Flatten(_)
\* the lines of a body, each ended by a newline
Flatten(ls) ==
  IF ls = <<>> THEN <<>> ELSE Head(ls) \o <<NL>> \o Flatten(Tail(ls))

BodiesOf(lineSet, n) ==
  {Flatten(ls) : ls \in UNION {[1..m -> lineSet] : m \in 0..n}}

HookLines ==
  {L_progress, L_complete, L_completeNoResult, L_completeZero, L_error,
   L_errorNoMessage, L_errorEmpty, L_badJson}

StreamLines ==
  {L_progress, L_progressStep, L_completeOne, L_errorNoMessage, L_badJson,
   L_blank}

\* lines of every kind the for loop tells apart, and what may follow one
FrameLines ==
  {L_progress, L_progressWide, L_completeOne, L_result, L_noType,
   L_errorHttp500, L_comment, L_dataNoSpace, L_event, L_blank}

FollowLines == {L_progress, L_blank}

FrameBodies ==
  {Flatten(<<l>> \o f) :
     l \in FrameLines, f \in UNION {[1..m -> FollowLines] : m \in 0..MaxFollow}}

\* a response: status line and body (body.present is false for a null body)
Response(status, statusText, present, bytes) ==
  [status |-> status, statusText |-> statusText,
   body |-> [present |-> present, bytes |-> bytes]]

ResponsesOf(bodies) ==
  {Response(200, ST_OK, TRUE, b) : b \in bodies}
    \cup {Response(204, <<>>, FALSE, <<>>),
          Response(404, ST_NotFound, TRUE, Flatten(<<L_complete>>)),
          Response(500, <<>>, TRUE, Flatten(<<L_error>>))}

HookResponses == ResponsesOf(BodiesOf(HookLines, MaxLines))
StreamResponses == ResponsesOf(BodiesOf(StreamLines, MaxStreamLines))
FrameResponses == ResponsesOf(FrameBodies)

\* messages of the TypeError a failed fetch or read rejects with
NetworkErrors == {JStr(MSG_FailedToFetch), JStr(<<>>)}

\* what the caller may pass as (url, body, enabled)
CallerProps ==
  [url : {"", "/api/analyze-stream"}, body : {"q1"}, enabled : BOOLEAN]
    \cup {[url |-> "/api/analyze-stream", body |-> "q2", enabled |-> TRUE]}

(***************************************************************************)
(* State                                                                   *)
(***************************************************************************)
VARIABLES
  props,              \* url, body, enabled of the latest render
  effectPending,      \* a render changed the deps, its effect has not run yet
  renderIsComplete,   \* isComplete as the pending/last effect's closure saw it
  cleanupSession,     \* the session the last effect's cleanup aborts, or 0
  mounted,
  data, isConnected, isComplete, error,     \* useState
  abortControllerRef, \* the session of abortControllerRef.current, or 0
  sessions,           \* the calls of connectSSE, oldest first
  emitted,            \* setData(update) calls since the newest session began
  errorsSet,          \* setError(non-null) calls since then
  completeCalls,      \* onComplete calls since then
  errorCalls,         \* onError calls since then
  handlers,           \* whose onComplete and onError the hook was given
  results, currentQuery, sseEnabled     \* useState of App

vars ==
  <<props, effectPending, renderIsComplete, cleanupSession, mounted, data,
    isConnected, isComplete, error, abortControllerRef, sessions, emitted,
    errorsSet, completeCalls, errorCalls, handlers, results, currentQuery,
    sseEnabled>>

hookState == <<data, isConnected, isComplete, error>>
logs == <<emitted, errorsSet, completeCalls, errorCalls>>
appState == <<results, currentQuery, sseEnabled>>
callerState ==
  <<props, effectPending, renderIsComplete, cleanupSession, mounted, handlers,
    appState>>

\* a call of connectSSE: where it is suspended and its locals
NewSession(closure) ==
  [pc |-> "fetch",              \* "fetch", "read" (awaiting) or "done"
   aborted |-> FALSE,           \* abortController.signal.aborted
   closureIsComplete |-> closure,
   wire |-> <<>>,               \* the bytes the server sends
   pos |-> 0,                   \* how many of them read() has returned
   decoder |-> NewDecoder,
   buffer |-> <<>>,
   cancelled |-> 0,             \* calls of reader.cancel()
   status |-> 0,                \* response.status, 0 before the response
   request |-> "",              \* the body the request was sent with
   exit |-> ""]                 \* how the call ended: "eof" (the loop saw
                                \* done), "abort" or "error" (the catch)

\* a cleanup that does not abort the call of its effect
KeepRunning(sess) == sess

\* An aborted call has only its rejection left to run: its locals are not
\* read again.
Retire(sess) ==
  [NewSession(sess.closureIsComplete) EXCEPT
     !.pc = sess.pc, !.aborted = TRUE]

(***************************************************************************)
(* Effects of a step on the hook's state and on the caller                 *)
(***************************************************************************)
NoEff ==
  [setData |-> <<>>, setIsComplete |-> FALSE, setError |-> <<>>,
   setIsConnected |-> <<>>, cancel |-> 0, onComplete |-> <<>>,
   onError |-> <<>>]

Plus(e, f) ==
  [setData |-> e.setData \o f.setData,
   setIsComplete |-> e.setIsComplete \/ f.setIsComplete,
   setError |-> e.setError \o f.setError,
   setIsConnected |-> e.setIsConnected \o f.setIsConnected,
   cancel |-> e.cancel + f.cancel,
   onComplete |-> e.onComplete \o f.onComplete,
   onError |-> e.onError \o f.onError]

Last(s) == s[Len(s)]
Front(s) == SubSeq(s, 1, Len(s) - 1)
Tag(s, vs) == [i \in 1..Len(vs) |-> [s |-> s, v |-> vs[i]]]

\* session s performs eff
Apply(s, eff) ==
  /\ data' = IF eff.setData = <<>> THEN data ELSE Last(eff.setData)
  /\ isComplete' = (isComplete \/ eff.setIsComplete)
  /\ error' = IF eff.setError = <<>> THEN error ELSE Last(eff.setError)
  /\ isConnected' =
       IF eff.setIsConnected = <<>> THEN isConnected
       ELSE Last(eff.setIsConnected)
  /\ emitted' = emitted \o Tag(s, eff.setData)
  /\ errorsSet' = errorsSet \o Tag(s, eff.setError)
  /\ completeCalls' = completeCalls \o Tag(s, eff.onComplete)
  /\ errorCalls' = errorCalls \o Tag(s, eff.onError)

(***************************************************************************)
(* connectSSE: the body of the for loop, lines 164-199                     *)
(***************************************************************************)
\* catch (err) of the inner try, lines 192-197
ParseCatch ==
  [NoEff EXCEPT !.setError = <<JStr(MSG_ParseFailed)>>, !.cancel = 1]

\* if (onComplete && update.result), line 176
CompleteGuard(update) == Truthy(Get(update, K_result))

\* update.type === 'complete', lines 172-180
CompleteBranch(update) ==
  [NoEff EXCEPT
     !.setIsComplete = TRUE,
     !.cancel = 1,
     !.onComplete =
       IF CompleteGuard(update) THEN <<Get(update, K_result)>> ELSE <<>>]

\* update.message, without the default
RawMessage(update) == Get(update, K_message)

\* update.message || 'Analysis failed', line 182
ErrorMsg(update) == JOr(Get(update, K_message), JStr(MSG_AnalysisFailed))

\* an error branch that also marks the session complete
ErrorBranchCompleting(update) ==
  [NoEff EXCEPT
     !.setIsComplete = TRUE,
     !.setError = <<ErrorMsg(update)>>,
     !.cancel = 1,
     !.onError = <<ErrorMsg(update)>>]

\* update.type === 'error', lines 181-191
ErrorBranch(update) ==
  [NoEff EXCEPT
     !.setError = <<ErrorMsg(update)>>,
     !.cancel = 1,
     !.onError = <<ErrorMsg(update)>>]

\* a prefix test that does not ask for the space
IsDataField(line) == StartsWith(line, <<100, 97, 116, 97, 58>>)

\* line.startsWith('data: ')
IsDataLine(line) == StartsWith(line, DATA_PREFIX)

\* a dispatch that takes a type it does not know for a parse failure
DispatchStrict(update) ==
  LET set == [NoEff EXCEPT !.setData = <<update>>] IN
  IF ~CanGet(update) THEN [eff |-> Plus(set, ParseCatch), brk |-> TRUE]
  ELSE IF Get(update, K_type) = JStr(T_complete)
  THEN [eff |-> Plus(set, CompleteBranch(update)), brk |-> TRUE]
  ELSE IF Get(update, K_type) = JStr(T_error)
  THEN [eff |-> Plus(set, ErrorBranch(update)), brk |-> TRUE]
  ELSE IF Get(update, K_type) = JStr(T_progress)
  THEN [eff |-> set, brk |-> FALSE]
  ELSE [eff |-> Plus(set, ParseCatch), brk |-> TRUE]

\* the try block on the parsed value, lines 169-191
Dispatch(update) ==
  LET set == [NoEff EXCEPT !.setData = <<update>>] IN
  \* update.type of null throws a TypeError inside the try
  IF ~CanGet(update) THEN [eff |-> Plus(set, ParseCatch), brk |-> TRUE]
  ELSE IF Get(update, K_type) = JStr(T_complete)
  THEN [eff |-> Plus(set, CompleteBranch(update)), brk |-> TRUE]
  ELSE IF Get(update, K_type) = JStr(T_error)
  THEN [eff |-> Plus(set, ErrorBranch(update)), brk |-> TRUE]
  ELSE [eff |-> set, brk |-> FALSE]

\* a catch that goes on to the next line
TryParseOn(parsed) ==
  IF ~parsed.ok THEN [eff |-> ParseCatch, brk |-> FALSE]
  ELSE Dispatch(parsed.v)

\* const update = JSON.parse(jsonData), and the catch when it throws
TryParse(parsed) ==
  IF ~parsed.ok THEN [eff |-> ParseCatch, brk |-> TRUE]
  ELSE Dispatch(parsed.v)

\* one iteration of the for loop: its effects and whether it breaks
HandleLine(line) ==
  IF ~IsDataLine(line) THEN [eff |-> NoEff, brk |-> FALSE]
  ELSE TryParse(JSONparse(Slice(line, 6)))

RECURSIVE ForLinesThrough(_, _, _)
\* a for loop that no break leaves
ForLinesThrough(lines, i, eff) ==
  IF i > Len(lines) THEN [eff |-> eff, brk |-> FALSE]
  ELSE ForLinesThrough(lines, i + 1, Plus(eff, HandleLine(lines[i]).eff))

RECURSIVE ForLines(_, _, _)
\* for (const line of lines) { ... }
ForLines(lines, i, eff) ==
  LET Step(h) ==
        IF h.brk THEN [eff |-> Plus(eff, h.eff), brk |-> TRUE]
        ELSE ForLines(lines, i + 1, Plus(eff, h.eff))
  IN
  IF i > Len(lines) THEN [eff |-> eff, brk |-> FALSE]
  ELSE Step(HandleLine(lines[i]))

\* a buffer that forgets the incomplete line
DropIncomplete(lines) == <<>>

\* a buffer that keeps the lines already handled with the incomplete one
KeepEverything(lines) == Flatten(Front(lines)) \o Last(lines)

\* buffer = lines.pop() || ''
KeepIncomplete(lines) == Last(lines)

\* One turn of the while loop on a chunk: decode, split, run the for loop.
ProcessChunk(sess, value) ==
  LET Looped(d, lines, run) ==
        [decoder |-> d, buffer |-> KeepIncomplete(lines), eff |-> run.eff,
         brk |-> run.brk]
      Splitted(d, lines) == Looped(d, lines, ForLines(Front(lines), 1, NoEff))
      Decoded(dec) == Splitted(dec.d, Split(sess.buffer \o dec.out))
  IN Decoded(Decode(sess.decoder, value))

(***************************************************************************)
(* connectSSE: the outer catch, lines 201-214                              *)
(***************************************************************************)
\* a catch that tells no AbortError from the other errors
NeverAbortError(err) == FALSE

\* err.name === 'AbortError', line 202
IsAbortError(err) == err.name = "AbortError"

\* if (onError && !isComplete): isComplete is the closure's value
ReportGuard(sess) == ~sess.closureIsComplete

Catch(sess, err) ==
  IF IsAbortError(err) THEN NoEff
  ELSE
    LET msg == JOr(err.message, JStr(MSG_ConnectionFailed)) IN
    [NoEff EXCEPT
       !.setError = <<msg>>,
       !.setIsConnected = <<FALSE>>,
       !.onError = IF ReportGuard(sess) THEN <<msg>> ELSE <<>>]

\* `HTTP ${response.status}: ${response.statusText}`
HttpMessage(resp) ==
  JStr(MSG_HTTP \o ToDigits(resp.status) \o MSG_ColonSpace \o resp.statusText)

\* a check that lets every status through
AnyStatusOk(resp) == TRUE

\* response.ok
ResponseOk(resp) == resp.status >= 200 /\ resp.status <= 299

\* a call that fetches again after a failure
ExitAndRetry(sess, how) ==
  [sess EXCEPT !.pc = IF how = "error" THEN "fetch" ELSE "done",
               !.exit = how]

\* the call ends: through the loop's break on done, or through the catch
Exit(sess, how) == [sess EXCEPT !.pc = "done", !.exit = how]
Caught(sess, err) ==
  Exit(sess, IF IsAbortError(err) THEN "abort" ELSE "error")

Thrown(message) == [name |-> "Error", message |-> message]
TypeError(message) == [name |-> "TypeError", message |-> message]
AbortError == [name |-> "AbortError", message |-> JStr(<<>>)]

(***************************************************************************)
(* App: the caller of the hook, App.tsx 45-126                             *)
(***************************************************************************)
\* the queries a user submits, told apart by the drug they name
Queries == {JObj([drug |-> "q1"]), JObj([drug |-> "q2"])}

\* const sseUrl = useMemo(...)
sseUrl(query) == IF Truthy(query) THEN "/api/analyze-stream" ELSE ""

\* const sseBody = useMemo(...): JSON.stringify(query), which differs where
\* the queries do, or undefined
sseBody(query) == IF Truthy(query) THEN query.o.drug ELSE "undefined"

\* what App passes to useSSE(sseUrl, { enabled, body, ... })
Passed(query, enabled) ==
  [url |-> sseUrl(query), body |-> sseBody(query),
   enabled |-> enabled /\ query # JNull]

\* App renders after a callback changed its state: the effect has to run
\* again if url, body or enabled differ
Rerender(p) ==
  /\ props' = p
  /\ effectPending' = (effectPending \/ p # props)
  /\ renderIsComplete' = IF p # props THEN isComplete' ELSE renderIsComplete

\* const handleComplete = useCallback((result) => {...}, [])
handleComplete(result) ==
  /\ results' = IF ~Truthy(result) THEN JNull ELSE result
  /\ sseEnabled' = FALSE
  /\ Rerender(Passed(currentQuery, FALSE))
  /\ UNCHANGED <<currentQuery, cleanupSession, mounted, handlers>>

\* const handleError = useCallback((err) => {...}, [])
handleError ==
  /\ sseEnabled' = FALSE
  /\ Rerender(Passed(currentQuery, FALSE))
  /\ UNCHANGED <<results, currentQuery, cleanupSession, mounted, handlers>>

\* what the caller does when this step called onComplete or onError
Callbacks ==
  IF handlers = "App" /\ Len(completeCalls') > Len(completeCalls)
  THEN handleComplete(Last(completeCalls').v)
  ELSE IF handlers = "App" /\ Len(errorCalls') > Len(errorCalls)
  THEN handleError
  ELSE UNCHANGED callerState

(***************************************************************************)
(* Actions of a session                                                    *)
(***************************************************************************)
Running(s, pc) ==
  /\ s \in DOMAIN sessions
  /\ sessions[s].pc = pc
  /\ ~sessions[s].aborted

\* await fetch(...) resolves; lines 124-148 run to the first reader.read()
FetchResolves(s, resp) ==
  /\ Running(s, "fetch")
  /\ LET got == [sessions[s] EXCEPT !.status = resp.status,
                                     !.wire = resp.body.bytes]
     IN
     IF ~ResponseOk(resp) THEN
       /\ Apply(s, Catch(got, Thrown(HttpMessage(resp))))
       /\ sessions' =
            [sessions EXCEPT ![s] = Caught(got, Thrown(HttpMessage(resp)))]
     ELSE IF ~resp.body.present THEN
       /\ Apply(s, Plus([NoEff EXCEPT !.setIsConnected = <<TRUE>>],
                        Catch(got, Thrown(JStr(MSG_NoResponseBody)))))
       /\ sessions' =
            [sessions EXCEPT
               ![s] = Caught(got, Thrown(JStr(MSG_NoResponseBody)))]
     ELSE
       /\ Apply(s, [NoEff EXCEPT !.setIsConnected = <<TRUE>>])
       /\ sessions' = [sessions EXCEPT ![s] = [got EXCEPT !.pc = "read"]]
  /\ Callbacks
  /\ UNCHANGED abortControllerRef

\* await fetch(...) rejects: the request failed
FetchRejects(s, message) ==
  /\ Running(s, "fetch")
  /\ Apply(s, Catch(sessions[s], TypeError(message)))
  /\ sessions' = [sessions EXCEPT ![s] = Caught(sessions[s], TypeError(message))]
  /\ Callbacks
  /\ UNCHANGED abortControllerRef

\* a loop that a break of the for loop does not end: it reads on
LoopTurnOn(sess, r) ==
  [sess EXCEPT !.decoder = r.decoder, !.buffer = r.buffer]

\* The locals after a turn of the loop; after a break the reader is
\* cancelled, the next read() resolves done and the loop ends.
LoopTurn(sess, r) ==
  LET turned == [sess EXCEPT !.decoder = r.decoder, !.buffer = r.buffer,
                             !.cancelled = sess.cancelled + r.eff.cancel]
  IN IF r.brk THEN Exit(turned, "eof") ELSE turned

\* await reader.read() resolves with the next k bytes.  After a break with
\* the reader cancelled the next read() resolves done at once, so the call
\* returns within the same step.
ReadChunk(s, k) ==
  /\ Running(s, "read")
  /\ k \in 1..(Len(sessions[s].wire) - sessions[s].pos)
  /\ LET sess == sessions[s]
         Turn(r) ==
           /\ Apply(s, r.eff)
           /\ sessions' =
                [sessions EXCEPT
                   ![s] = LoopTurn([sess EXCEPT !.pos = sess.pos + k], r)]
     IN Turn(ProcessChunk(sess, SubSeq(sess.wire, sess.pos + 1, sess.pos + k)))
  /\ Callbacks
  /\ UNCHANGED abortControllerRef

\* await reader.read() resolves done: the server ended the stream
ReadDone(s) ==
  /\ Running(s, "read")
  /\ sessions' = [sessions EXCEPT ![s] = Exit(sessions[s], "eof")]
  /\ UNCHANGED <<callerState, abortControllerRef, hookState, logs>>

\* await reader.read() rejects: the connection dropped
ReadFails(s, message) ==
  /\ Running(s, "read")
  /\ Apply(s, Catch(sessions[s], TypeError(message)))
  /\ sessions' = [sessions EXCEPT ![s] = Caught(sessions[s], TypeError(message))]
  /\ Callbacks
  /\ UNCHANGED abortControllerRef

\* the pending fetch or read of an aborted session rejects with AbortError
AbortRejects(s) ==
  /\ s \in DOMAIN sessions
  /\ sessions[s].pc \in {"fetch", "read"}
  /\ sessions[s].aborted
  /\ Apply(s, Catch(sessions[s], AbortError))
  /\ sessions' = [sessions EXCEPT ![s] = Caught(sessions[s], AbortError)]
  /\ UNCHANGED <<callerState, abortControllerRef>>

(***************************************************************************)
(* Actions of the caller and of React                                      *)
(***************************************************************************)
\* abortController.abort() of session s (0: there is none)
Abort(ss, s) == IF s = 0 THEN ss ELSE [ss EXCEPT ![s].aborted = TRUE]

\* an effect without its guard
StartsAlways(p) == TRUE

\* if (!enabled || !url) return; line 107
StartsSession(p) == p.enabled /\ p.url # ""

\* The caller renders with other values of url, body or enabled.
Render(p) ==
  /\ mounted
  /\ ~effectPending
  /\ p # props
  /\ StartsSession(p) => Len(sessions) < MaxSessions
  /\ props' = p
  /\ effectPending' = TRUE
  /\ renderIsComplete' = isComplete
  /\ UNCHANGED <<cleanupSession, mounted, hookState, abortControllerRef,
                 sessions, logs, handlers, appState>>

\* React runs the cleanup of the previous effect, then the effect:
\* lines 106-119, 217 and 220-223.
RunEffect(p, closure) ==
  IF ~StartsSession(p) THEN
    /\ sessions' = Abort(sessions, cleanupSession)
    /\ isConnected' = IF cleanupSession = 0 THEN isConnected ELSE FALSE
    /\ cleanupSession' = 0
    /\ UNCHANGED <<data, isComplete, error, abortControllerRef, logs>>
  ELSE
    /\ data' = JNull
    /\ isComplete' = FALSE
    /\ error' = JNull
    /\ isConnected' = FALSE
    /\ sessions' =
         Append([i \in 1..Len(sessions) |-> Retire(sessions[i])],
                [NewSession(closure) EXCEPT !.request = p.body])
    /\ abortControllerRef' = Len(sessions) + 1
    /\ cleanupSession' = Len(sessions) + 1
    /\ emitted' = <<>>
    /\ errorsSet' = <<>>
    /\ completeCalls' = <<>>
    /\ errorCalls' = <<>>

\* the effect of the latest render runs, after a render that was not caused
\* by a click or a submit
FlushEffects ==
  /\ effectPending
  /\ effectPending' = FALSE
  /\ UNCHANGED <<props, renderIsComplete, mounted, handlers, appState>>
  /\ RunEffect(props, renderIsComplete)

\* a cleanup that also resets what the session had shown
UnmountClearing ==
  /\ mounted
  /\ mounted' = FALSE
  /\ effectPending' = FALSE
  /\ sessions' = Abort(sessions, cleanupSession)
  /\ isConnected' = IF cleanupSession = 0 THEN isConnected ELSE FALSE
  /\ cleanupSession' = 0
  /\ data' = JNull
  /\ error' = JNull
  /\ UNCHANGED <<props, renderIsComplete, isComplete, abortControllerRef,
                 logs, handlers, appState>>

\* the component unmounts: the cleanup runs, a pending effect does not
Unmount ==
  /\ mounted
  /\ mounted' = FALSE
  /\ effectPending' = FALSE
  /\ sessions' = Abort(sessions, cleanupSession)
  /\ isConnected' = IF cleanupSession = 0 THEN isConnected ELSE FALSE
  /\ cleanupSession' = 0
  /\ UNCHANGED <<props, renderIsComplete, data, isComplete, error,
                 abortControllerRef, logs, handlers, appState>>

\* close(), lines 234-239
Close ==
  /\ mounted
  /\ abortControllerRef # 0
  /\ sessions' = Abort(sessions, abortControllerRef)
  /\ isConnected' = FALSE
  /\ UNCHANGED <<callerState, data, isComplete, error, abortControllerRef,
                 logs>>

(***************************************************************************)
(* Specifications                                                          *)
(***************************************************************************)
InitHook ==
  /\ mounted = TRUE
  /\ effectPending = TRUE
  /\ renderIsComplete = FALSE
  /\ cleanupSession = 0
  /\ data = JNull
  /\ isConnected = FALSE
  /\ isComplete = FALSE
  /\ error = JNull
  /\ abortControllerRef = 0
  /\ sessions = <<>>
  /\ emitted = <<>>
  /\ errorsSet = <<>>
  /\ completeCalls = <<>>
  /\ errorCalls = <<>>
  /\ results = JNull
  /\ currentQuery = JNull
  /\ sseEnabled = FALSE

\* the hook as any caller may drive it
Init ==
  /\ props \in CallerProps
  /\ handlers = "any"
  /\ InitHook

Sessions == 1..Len(sessions)

Next ==
  \/ \E p \in CallerProps : Render(p)
  \/ FlushEffects
  \/ Unmount
  \/ Close
  \/ \E s \in Sessions, resp \in HookResponses : FetchResolves(s, resp)
  \/ \E s \in Sessions, m \in NetworkErrors : FetchRejects(s, m)
  \/ \E s \in Sessions :
       \E k \in 1..(Len(sessions[s].wire) - sessions[s].pos) : ReadChunk(s, k)
  \/ \E s \in Sessions : ReadDone(s)
  \/ \E s \in Sessions, m \in NetworkErrors : ReadFails(s, m)
  \/ \E s \in Sessions : AbortRejects(s)

Spec == Init /\ [][Next]_vars

\* one session, mounted with enabled = true, over longer bodies
InitStream ==
  /\ props = [url |-> "/api/analyze-stream", body |-> "q1", enabled |-> TRUE]
  /\ handlers = "any"
  /\ InitHook

NextStream ==
  \/ FlushEffects
  \/ \E s \in Sessions, resp \in StreamResponses : FetchResolves(s, resp)
  \/ \E s \in Sessions, m \in NetworkErrors : FetchRejects(s, m)
  \/ \E s \in Sessions :
       \E k \in 1..(Len(sessions[s].wire) - sessions[s].pos) : ReadChunk(s, k)
  \/ \E s \in Sessions : ReadDone(s)
  \/ \E s \in Sessions, m \in NetworkErrors : ReadFails(s, m)

SpecStream == InitStream /\ [][NextStream]_vars

\* one session over bodies that start with a line of each kind
NextFrames ==
  \/ FlushEffects
  \/ \E s \in Sessions, resp \in FrameResponses : FetchResolves(s, resp)
  \/ \E s \in Sessions, m \in NetworkErrors : FetchRejects(s, m)
  \/ \E s \in Sessions :
       \E k \in 1..(Len(sessions[s].wire) - sessions[s].pos) : ReadChunk(s, k)
  \/ \E s \in Sessions : ReadDone(s)
  \/ \E s \in Sessions, m \in NetworkErrors : ReadFails(s, m)

SpecFrames == InitStream /\ [][NextFrames]_vars
(***************************************************************************)
(* What a response body holds, read as a whole: its completed lines and    *)
(* the first line at which a reader has to stop.                           *)
(***************************************************************************)
\* the lines of a body that a newline completes, as text
WireLines(bytes) == Front(Split(Decode(NewDecoder, bytes).out))

\* what a line is on the wire
Kind(line) ==
  LET Of(parsed) ==
        IF ~parsed.ok THEN "malformed"
        ELSE IF Get(parsed.v, K_type) = JStr(T_complete) THEN "complete"
        ELSE IF Get(parsed.v, K_type) = JStr(T_error) THEN "error"
        ELSE IF Get(parsed.v, K_type) = JStr(T_progress) THEN "progress"
        ELSE "other"
  IN
  IF ~StartsWith(line, DATA_PREFIX) THEN "noise"
  ELSE Of(JSONparse(Slice(line, 6)))

\* the JSON value a data line carries
Frame(line) == JSONparse(Slice(line, 6)).v

Stops == {"complete", "error", "malformed"}

\* the index of the first line a reader stops at, 0 when there is none
StopAt(lines) ==
  LET stop == {i \in 1..Len(lines) : Kind(lines[i]) \in Stops} IN
  IF stop = {} THEN 0 ELSE Min(stop)

\* how many bytes of the body end with its n-th newline
EndOfLine(bytes, n) ==
  Min({p \in 1..Len(bytes) :
         /\ bytes[p] = NL
         /\ Cardinality({q \in 1..p : bytes[q] = NL}) = n})

\* the values a log holds for session s, in order
By(log, s) ==
  LET own == SelectSeq(log, LAMBDA e : e.s = s) IN
  [i \in 1..Len(own) |-> own[i].v]

\* the frames of the lines 1..n
Frames(lines, n) == [i \in 1..n |-> Frame(lines[i])]

\* the session whose frames and calls the logs hold
Newest(s) == s = Len(sessions)

\* the response of session s was 2xx
Ok(s) == sessions[s].status \in 200..299

IsPrefix(a, b) == Len(a) <= Len(b) /\ a = SubSeq(b, 1, Len(a))

\* progress frames and then a terminal frame, each a data line
WellFormed(lines) ==
  /\ StopAt(lines) # 0
  /\ Kind(lines[StopAt(lines)]) \in {"complete", "error"}
  /\ \A i \in 1..(StopAt(lines) - 1) : Kind(lines[i]) = "progress"

\* C1: of a well-formed stream, progress frames and then one terminal
\* frame, each a data line of its own, the reader emits the progress frames
\* in the order received, then the terminal frame, and nothing after it,
\* whatever follows the terminal frame in the same or in later chunks.
C1_WellFormedOrder ==
  \A s \in DOMAIN sessions :
    LET Check(lines) ==
          WellFormed(lines) =>
            /\ IsPrefix(By(emitted, s), Frames(lines, StopAt(lines)))
            /\ sessions[s].pos >= EndOfLine(sessions[s].wire, StopAt(lines))
                 => By(emitted, s) = Frames(lines, StopAt(lines))
    IN Newest(s) /\ Ok(s) => Check(WireLines(sessions[s].wire))

\* two progress frames and the terminal frame were emitted, in that order,
\* and the frame after the terminal frame was not
C1_Witness ==
  \E s \in DOMAIN sessions :
    /\ sessions[s].wire = Flatten(<<L_progressStep, L_completeOne, L_progress>>)
    /\ sessions[s].pos = Len(sessions[s].wire)
    /\ Len(By(emitted, s)) = 2
    /\ Get(By(emitted, s)[2], K_type) = JStr(T_complete)

\* C2: chunking does not change the result: however the bytes read so far
\* were cut into chunks, in the data: prefix or in the JSON payload, the
\* frames emitted are those of the same bytes arriving as one chunk, so a
\* frame split across chunks is emitted exactly once.
C2_ChunkingInvariant ==
  \A s \in DOMAIN sessions :
    Newest(s) =>
      By(emitted, s) =
        ProcessChunk(NewSession(FALSE),
                     SubSeq(sessions[s].wire, 1, sessions[s].pos)).eff.setData

\* a frame was emitted and the last chunk ended inside the next data: prefix
C2_Witness ==
  \E s \in DOMAIN sessions :
    /\ Len(By(emitted, s)) = 1
    /\ sessions[s].buffer # <<>>
    /\ Len(sessions[s].buffer) < Len(DATA_PREFIX)
    /\ IsPrefix(sessions[s].buffer, DATA_PREFIX)

\* C3: once a session is aborted, by the cleanup or by close(), it emits
\* no further frame and calls neither onComplete nor onError, whatever the
\* order of the abort, the fetch's resolution and the chunks' arrival.
C3_NoActAfterAbort ==
  [][\A s \in DOMAIN sessions :
       sessions[s].aborted =>
         /\ Len(By(emitted', s)) <= Len(By(emitted, s))
         /\ Len(By(completeCalls', s)) <= Len(By(completeCalls, s))
         /\ Len(By(errorCalls', s)) <= Len(By(errorCalls, s))]_vars

\* a session aborted after its first frame has ended in the catch with
\* nothing reported
C3_Witness ==
  \E s \in DOMAIN sessions :
    /\ sessions[s].exit = "abort"
    /\ sessions[s].pos > 0
    /\ Len(By(emitted, s)) = 1
    /\ By(completeCalls, s) = <<>>
    /\ By(errorCalls, s) = <<>>
    /\ error = JNull

\* HTTP 404: Not Found
HTTP_404_NotFound ==
  <<72, 84, 84, 80, 32, 52, 48, 52, 58, 32, 78, 111, 116, 32, 70, 111, 117,
    110, 100>>
\* HTTP 500:
HTTP_500_Empty == <<72, 84, 84, 80, 32, 53, 48, 48, 58, 32>>

\* C4: a response with a non-2xx status fails the session with the error
\* "HTTP <status>: <statusText>"; its body is never read, no frame is
\* emitted, data stays null and isConnected is never true in that session.
C4_NonOkStatus ==
  \A s \in DOMAIN sessions :
    Newest(s) =>
      /\ sessions[s].status = 0 /\ sessions[s].pc = "fetch" => ~isConnected
      /\ sessions[s].status # 0 /\ ~Ok(s) =>
           /\ sessions[s].status = 404 => error = JStr(HTTP_404_NotFound)
           /\ sessions[s].status = 500 => error = JStr(HTTP_500_Empty)
           /\ sessions[s].status \in {404, 500}
           /\ sessions[s].pc = "done"
           /\ sessions[s].pos = 0
           /\ By(emitted, s) = <<>>
           /\ data = JNull
           /\ ~isConnected

\* a session answered 404 with a body that holds a frame
C4_Witness ==
  \E s \in DOMAIN sessions :
    /\ Newest(s)
    /\ sessions[s].status = 404
    /\ sessions[s].wire # <<>>
    /\ error = JStr(HTTP_404_NotFound)

\* the session ended in the catch on a failed request, a non-2xx status
\* or a dropped connection
Failed(s) == sessions[s].exit = "error" /\ sessions[s].status # 204

\* C5: in every session of a hook, one started after an earlier session
\* completed included, a network failure or a non-2xx response before a
\* terminal frame sets error and calls onError exactly once.
C5_FailureReported ==
  \A s \in DOMAIN sessions :
    Newest(s) /\ Failed(s) =>
      /\ error # JNull
      /\ Len(By(errorCalls, s)) = 1
      /\ By(errorCalls, s)[1] = error

\* the bytes through the first line a reader stops at were read, and that
\* line is of the given kind
StoppedOn(s, kind) ==
  LET Check(lines) ==
        /\ StopAt(lines) # 0
        /\ Kind(lines[StopAt(lines)]) = kind
        /\ sessions[s].pos >= EndOfLine(sessions[s].wire, StopAt(lines))
  IN Ok(s) /\ Check(WireLines(sessions[s].wire))

\* the frame of the line the reader stopped at
StopFrame(s) ==
  LET Of(lines) == Frame(lines[StopAt(lines)])
  IN Of(WireLines(sessions[s].wire))

\* the frames of the data lines before the line the reader stopped at
FramesBeforeStop(s) ==
  LET Of(lines) ==
        LET dataLines ==
              SelectSeq(SubSeq(lines, 1, StopAt(lines) - 1),
                        LAMBDA l : Kind(l) # "noise")
        IN [i \in 1..Len(dataLines) |-> Frame(dataLines[i])]
  IN Of(WireLines(sessions[s].wire))

\* C6: a data line whose payload is not valid JSON yields exactly one
\* parse error, 'Failed to parse progress update', and halts the session:
\* the reader is cancelled, no later line or chunk is parsed and no second
\* error is recorded.
C6_ParseErrorHalts ==
  \A s \in DOMAIN sessions :
    Newest(s) /\ StoppedOn(s, "malformed") =>
      /\ sessions[s].pc = "done"
      /\ sessions[s].cancelled = 1
      /\ error = JStr(MSG_ParseFailed)
      /\ By(errorsSet, s) = <<JStr(MSG_ParseFailed)>>
      /\ By(emitted, s) = FramesBeforeStop(s)

\* a frame, then a malformed line, then a frame in the same last chunk
C6_Witness ==
  \E s \in DOMAIN sessions :
    /\ sessions[s].wire = Flatten(<<L_progress, L_badJson, L_progressStep>>)
    /\ sessions[s].pos = Len(sessions[s].wire)
    /\ sessions[s].buffer = <<>>
    /\ error = JStr(MSG_ParseFailed)
    /\ Len(By(emitted, s)) = 1

\* C7: a parse failure on a data line also calls the caller's onError,
\* exactly once for the session.
C7_ParseErrorReported ==
  \A s \in DOMAIN sessions :
    Newest(s) /\ StoppedOn(s, "malformed") => Len(By(errorCalls, s)) = 1

\* C8: every complete frame sets isComplete, cancels the reader and calls
\* onComplete exactly once with the frame's result, whatever JSON value
\* the result is: missing, null, false, 0 or the empty string included.
C8_CompleteSignalled ==
  \A s \in DOMAIN sessions :
    Newest(s) /\ StoppedOn(s, "complete") =>
      /\ isComplete
      /\ sessions[s].cancelled = 1
      /\ By(completeCalls, s) = <<Get(StopFrame(s), K_result)>>

\* the string an error frame reports
Reported(frame) ==
  IF Get(frame, K_message).t = "string" /\ Get(frame, K_message).s # <<>>
  THEN Get(frame, K_message)
  ELSE JStr(MSG_AnalysisFailed)

C10_OneTerminalState ==
  \A s \in DOMAIN sessions :
    Newest(s) /\ sessions[s].pc = "done" =>
      \/ isComplete /\ error = JNull /\ sessions[s].exit # "abort"
      \/ ~isComplete /\ error # JNull /\ sessions[s].exit # "abort"
      \/ ~isComplete /\ error = JNull /\ sessions[s].exit = "abort"

\* C11: isComplete is true only when the session has processed a frame of
\* type complete: the end of the stream, an error frame, a parse or
\* transport failure, an abort and a frame of another type never set it.
C11_CompleteOnlyByFrame ==
  isComplete => \E s \in DOMAIN sessions : Newest(s) /\ StoppedOn(s, "complete")

\* the session was aborted after its complete frame and is still complete
C11_Witness ==
  \E s \in DOMAIN sessions :
    /\ Newest(s)
    /\ StoppedOn(s, "complete")
    /\ sessions[s].aborted
    /\ isComplete

\* the lines that the bytes read so far complete
ReadLines(s) == WireLines(SubSeq(sessions[s].wire, 1, sessions[s].pos))

\* the frames of the data lines among them, through the first line a
\* reader stops at
DataFrames(lines) ==
  LET n == IF StopAt(lines) = 0 THEN Len(lines) ELSE StopAt(lines)
      dataLines == SelectSeq(SubSeq(lines, 1, n), LAMBDA l : Kind(l) # "noise")
  IN [i \in 1..Len(dataLines) |-> Frame(dataLines[i])]

\* C12: a line that does not start with 'data: ' (a blank line, a comment,
\* data: without the space, an event: line) is ignored: it changes none of
\* data, isComplete and error, calls nothing, and the lines after it are
\* read as if it were not there.
C12_NoiseIgnored ==
  \A s \in DOMAIN sessions :
    LET Check(lines) ==
          /\ By(emitted, s) = DataFrames(lines)
          /\ (\A i \in 1..Len(lines) : Kind(lines[i]) = "noise") =>
               /\ data = JNull
               /\ ~isComplete
               /\ error = JNull
               /\ errorsSet = <<>>
               /\ completeCalls = <<>>
               /\ errorCalls = <<>>
               /\ sessions[s].cancelled = 0
               /\ sessions[s].pc = "read" \/ sessions[s].exit = "eof"
    IN Newest(s) /\ Ok(s) /\ sessions[s].exit # "error" => Check(ReadLines(s))

\* data: without the space was passed over and the frame after it emitted
C12_Witness ==
  \E s \in DOMAIN sessions :
    /\ sessions[s].wire = Flatten(<<L_dataNoSpace, L_progress>>)
    /\ sessions[s].pos = Len(sessions[s].wire)
    /\ sessions[s].pc = "read"
    /\ Len(By(emitted, s)) = 1
    /\ data = Frame(L_progress)
    /\ error = JNull
    /\ ~isComplete

\* a data line of valid JSON whose type is a string other than progress,
\* complete and error
OtherType(line) ==
  Kind(line) = "other" /\ Get(Frame(line), K_type).t = "string"

\* the lines read hold such a line and besides it only lines that are no
\* data lines
OnlyOtherType(lines) ==
  /\ \E i \in 1..Len(lines) : OtherType(lines[i])
  /\ \A i \in 1..Len(lines) : OtherType(lines[i]) \/ Kind(lines[i]) = "noise"

\* the session reads on: nothing has ended or failed it
ReadsOn(s) ==
  /\ ~isComplete
  /\ error = JNull
  /\ errorsSet = <<>>
  /\ completeCalls = <<>>
  /\ errorCalls = <<>>
  /\ sessions[s].cancelled = 0
  /\ sessions[s].pc = "read" \/ sessions[s].exit = "eof"

\* C13 as stated: a data line of valid JSON whose type is none of
\* progress, complete, error is ignored: no error, no end of the session,
\* no callback, and data, isComplete and error as they were.
C13_OtherTypeIgnored ==
  \A s \in DOMAIN sessions :
    LET Check(lines) == OnlyOtherType(lines) => ReadsOn(s) /\ data = JNull
    IN Newest(s) /\ Ok(s) /\ sessions[s].exit # "error" => Check(ReadLines(s))

\* C13 as amended: a data line of valid JSON whose type is none of
\* progress, complete, error raises no error, does not end the session,
\* calls nothing and leaves isComplete and error as they were, but it is
\* emitted: data becomes that frame.
C13_OtherTypeOnlyData ==
  \A s \in DOMAIN sessions :
    LET Check(lines) ==
          OnlyOtherType(lines) =>
            /\ ReadsOn(s)
            /\ By(emitted, s) = DataFrames(lines)
            /\ data = Last(DataFrames(lines))
    IN Newest(s) /\ Ok(s) /\ sessions[s].exit # "error" => Check(ReadLines(s))

\* a frame of type result is the hook's data and the session reads on
C13_Witness ==
  \E s \in DOMAIN sessions :
    /\ sessions[s].wire = Flatten(<<L_result, L_blank>>)
    /\ sessions[s].pos = Len(sessions[s].wire)
    /\ sessions[s].pc = "read"
    /\ data = Frame(L_result)
    /\ error = JNull

\* a parsed frame without type, or a progress frame without message or
\* progress
LacksRequired(frame) ==
  \/ Get(frame, K_type) = JUndef
  \/ /\ Get(frame, K_type) = JStr(T_progress)
     /\ \/ Get(frame, K_message) = JUndef
        \/ Get(frame, T_progress) = JUndef

\* C14: a data line of valid JSON that lacks a required field (no type, or
\* a progress frame without message or progress) is a parse error: error
\* is set and the session ends, as for invalid JSON.
C14_MissingFieldIsParseError ==
  \A s \in DOMAIN sessions :
    LET Check(lines) ==
          /\ Len(lines) >= 1
          /\ Kind(lines[1]) \in {"other", "progress"}
          /\ LacksRequired(Frame(lines[1]))
          => /\ error = JStr(MSG_ParseFailed)
             /\ sessions[s].pc = "done"
             /\ sessions[s].cancelled = 1
    IN Newest(s) /\ Ok(s) /\ sessions[s].exit # "error" => Check(ReadLines(s))

\* C15: the failure kinds are distinguishable by what the caller sees, the
\* error value and the callbacks invoked: a session that leaves error =
\* 'HTTP 500: ' and one call of onError with it has failed on a response
\* with status 500, not on an error frame that carries that message.
C15_FailureKindsDistinct ==
  \A s \in DOMAIN sessions :
    /\ Newest(s)
    /\ sessions[s].pc = "done"
    /\ error = JStr(HTTP_500_Empty)
    /\ By(errorCalls, s) = <<JStr(HTTP_500_Empty)>>
    /\ By(completeCalls, s) = <<>>
    => sessions[s].status = 500

\* C16: once a new session has started, no step of an earlier session,
\* whether its fetch or its read was pending, changes data, isComplete or
\* error or calls onComplete or onError.
C16_SessionsDoNotInterfere ==
  [][\A s \in DOMAIN sessions :
       /\ s < Len(sessions)
       /\ Len(sessions') = Len(sessions)
       /\ sessions'[s] # sessions[s]
       => /\ data' = data
          /\ isComplete' = isComplete
          /\ error' = error
          /\ emitted' = emitted
          /\ errorsSet' = errorsSet
          /\ completeCalls' = completeCalls
          /\ errorCalls' = errorCalls]_vars

\* the rejection of the first session's read arrived after the second
\* session had emitted a frame
C16_Witness ==
  \E s \in DOMAIN sessions :
    /\ s < Len(sessions)
    /\ sessions[s].exit = "abort"
    /\ By(emitted, Len(sessions)) # <<>>
    /\ data # JNull

\* C17: cancellation changes nothing but the connection: in a step that
\* starts no session and leaves the newest session aborted (close(), the
\* cleanup, or a later step of the aborted session) data, isComplete and
\* error stay as they were, whether the session was connecting, streaming,
\* completed or failed, and the step that aborts it sets isConnected false;
\* so an aborted session never becomes Completed or Failed afterwards.
C17_CancelOnlyDisconnects ==
  [][/\ Len(sessions) > 0
     /\ Len(sessions') = Len(sessions)
     /\ sessions'[Len(sessions)].aborted
     => /\ data' = data
        /\ isComplete' = isComplete
        /\ error' = error
        /\ ~sessions[Len(sessions)].aborted => ~isConnected']_vars

\* a session that had failed was cancelled afterwards and keeps its error
C17_Witness ==
  \E s \in DOMAIN sessions :
    /\ Newest(s)
    /\ sessions[s].aborted
    /\ sessions[s].exit = "error"
    /\ error # JNull
    /\ ~isConnected

\* C18: the hook never retries: a call of connectSSE issues one fetch and,
\* once it has ended or passed its fetch, never waits on a fetch again; a
\* new call starts only when the effect runs, one call a run, and the
\* effect is pending only after the caller has changed url, body or
\* enabled.
C18_NoRetry ==
  [][/\ \A s \in DOMAIN sessions :
          s \in DOMAIN sessions' =>
            /\ sessions[s].pc # "fetch" => sessions'[s].pc # "fetch"
            /\ sessions'[s].exit # "" => sessions'[s].pc = "done"
     /\ Len(sessions') # Len(sessions) =>
          /\ Len(sessions') = Len(sessions) + 1
          /\ effectPending /\ ~effectPending'
          /\ StartsSession(props)
     /\ ~effectPending /\ effectPending' => props' # props]_vars

\* the only session has failed on its fetch and no effect is pending
C18_Witness ==
  \E s \in DOMAIN sessions :
    /\ Len(sessions) = 1
    /\ sessions[s].exit = "error"
    /\ sessions[s].status = 0
    /\ error # JNull
    /\ ~effectPending

\* the text of L_progressWide, as code points
TXT_progressWide ==
  <<100, 97, 116, 97, 58, 32, 123, 34, 116, 121, 112, 101, 34, 58, 34, 112,
    114, 111, 103, 114, 101, 115, 115, 34, 44, 34, 115, 116, 101, 112, 34,
    58, 34, 8364, 128512, 34, 125>>

\* C19: a multi-byte character whose bytes arrive in two chunks becomes
\* that one character of the assembled line, at every place of the cut:
\* the text held after any chunks is the text of the same bytes decoded at
\* once, with no U+FFFD and no byte lost or repeated, since one decoder
\* serves all chunks of the session.
C19_SplitCharacterDecodes ==
  \A s \in DOMAIN sessions :
    LET sess == sessions[s]
        Check(whole) ==
          /\ sess.decoder = whole.d
          /\ sess.pc = "read" => sess.buffer = Last(Split(whole.out))
          /\ \A i \in 1..Len(sess.buffer) : sess.buffer[i] # REPLACEMENT
          /\ /\ StartsWith(sess.wire, L_progressWide)
             /\ sess.pc = "read"
             => /\ sess.pos <= Len(L_progressWide)
                  => IsPrefix(sess.buffer, TXT_progressWide)
                /\ sess.pos = Len(L_progressWide)
                  => sess.buffer = TXT_progressWide
                /\ sess.pos > Len(L_progressWide)
                  => Get(Head(By(emitted, s)), <<115, 116, 101, 112>>)
                       = JStr(<<8364, 128512>>)
    IN Newest(s) /\ Ok(s) /\ sess.exit # "error" =>
         Check(Decode(NewDecoder, SubSeq(sess.wire, 1, sess.pos)))

\* the last chunk ended after three of the four bytes of the second
\* character; the first character is in the buffer
C19_Witness ==
  \E s \in DOMAIN sessions :
    /\ sessions[s].pc = "read"
    /\ sessions[s].decoder.needed = 3
    /\ sessions[s].decoder.seen = 2
    /\ sessions[s].buffer # <<>>
    /\ Last(sessions[s].buffer) = 8364

\* C20: the event types of the streaming endpoint are progress, result and
\* error: a frame of type result ends the stream and delivers the results:
\* isComplete is set, the reader is cancelled and onComplete is called
\* with the frame's result.
C20_ResultFrameCompletes ==
  \A s \in DOMAIN sessions :
    LET Check(lines) ==
          /\ Len(lines) >= 1
          /\ Kind(lines[1]) # "noise"
          /\ Get(Frame(lines[1]), K_type) = JStr(K_result)
          => /\ isComplete
             /\ sessions[s].pc = "done"
             /\ sessions[s].cancelled = 1
             /\ By(completeCalls, s) = <<Get(Frame(lines[1]), K_result)>>
    IN Newest(s) /\ Ok(s) /\ sessions[s].exit # "error" => Check(ReadLines(s))

\* the text decoded from the bytes read so far
TextRead(s) ==
  Decode(NewDecoder, SubSeq(sessions[s].wire, 1, sessions[s].pos)).out

\* C21: after each chunk the buffer holds exactly the text received after
\* the last newline seen so far, so it holds no newline, and every line
\* that a newline completed was handed to the frame handler exactly once,
\* unless the session stopped at a terminal frame or a parse error; at the
\* end of the stream an unterminated last line is left in the buffer,
\* neither parsed nor emitted.
C21_LineBuffer ==
  \A s \in DOMAIN sessions :
    LET Check(lines) ==
          StopAt(lines) = 0 =>
            /\ sessions[s].buffer = Last(Split(TextRead(s)))
            /\ \A i \in 1..Len(sessions[s].buffer) :
                 sessions[s].buffer[i] # NL
            /\ By(emitted, s) = DataFrames(lines)
            /\ errorsSet = <<>>
    IN Newest(s) /\ Ok(s) /\ sessions[s].exit # "error" => Check(ReadLines(s))

\* the stream ended one byte before the newline of a progress frame: the
\* frame is whole in the buffer and was not emitted
C21_Witness ==
  \E s \in DOMAIN sessions :
    /\ sessions[s].wire = Flatten(<<L_progress, L_progress>>)
    /\ sessions[s].pos = Len(sessions[s].wire) - 1
    /\ sessions[s].exit = "eof"
    /\ sessions[s].buffer = L_progress
    /\ Len(By(emitted, s)) = 1

Live == {s \in DOMAIN sessions :
           ~sessions[s].aborted /\ sessions[s].pc # "done"}

\* C23: a hook has at most one un-aborted connection at any time: when
\* url, body or enabled change, or the component unmounts, the session
\* before is aborted before a new fetch is issued, and one change of the
\* caller's state starts at most one request.
C23_OneLiveConnection ==
  /\ Cardinality(Live) <= 1
  /\ \A s \in DOMAIN sessions : ~Newest(s) => sessions[s].aborted
  /\ ~mounted => Live = {}
  /\ Len(sessions) > 0 /\ ~StartsSession(props) /\ ~effectPending => Live = {}

\* the first session was aborted while its fetch was pending and has not
\* yet seen the rejection; the second session is reading
C23_Witness ==
  /\ Len(sessions) = 2
  /\ sessions[1].aborted
  /\ sessions[1].pc = "fetch"
  /\ sessions[2].pc = "read"
  /\ Live = {2}

\* the effect runs in this step and the component stays mounted
EffectRuns == effectPending /\ ~effectPending' /\ mounted'

\* C24: every session starts clean: the step in which the effect starts a
\* session (enabled true, url not empty) leaves data null, isComplete
\* false, error null and isConnected false, they stay so until the
\* session's response arrives, and what is shown afterwards is what the
\* new session emitted, nothing of an earlier one; with enabled false or
\* an empty url the effect starts nothing and changes none of data,
\* isComplete and error, and isConnected only by the cleanup of the
\* session it replaces.
C24_CleanStart ==
  [][/\ EffectRuns /\ props.enabled /\ props.url # "" =>
          /\ Len(sessions') = Len(sessions) + 1
          /\ data' = JNull /\ ~isComplete' /\ error' = JNull /\ ~isConnected'
          /\ emitted' = <<>> /\ errorsSet' = <<>>
          /\ completeCalls' = <<>> /\ errorCalls' = <<>>
     /\ EffectRuns /\ ~(props.enabled /\ props.url # "") =>
          /\ Len(sessions') = Len(sessions)
          /\ data' = data /\ isComplete' = isComplete /\ error' = error
          /\ UNCHANGED logs
          /\ cleanupSession = 0 => isConnected' = isConnected
     /\ Len(sessions') > 0 /\ sessions'[Len(sessions')].pc = "fetch" =>
          data' = JNull /\ ~isComplete' /\ error' = JNull /\ ~isConnected'
     /\ \A i \in 1..Len(emitted') : emitted'[i].s = Len(sessions')
     /\ data' = IF emitted' = <<>> THEN JNull ELSE Last(emitted').v
     /\ error' = IF errorsSet' = <<>> THEN JNull ELSE Last(errorsSet').v
    ]_vars

\* a session started by a render that saw the session before completed
\* waits for its response, and nothing of that session is shown
C24_Witness ==
  /\ Len(sessions) = 2
  /\ sessions[2].closureIsComplete
  /\ sessions[2].pc = "fetch"
  /\ ~sessions[2].aborted
  /\ data = JNull /\ ~isComplete /\ error = JNull /\ ~isConnected

\* C28: isConnected is true only while a stream is open and being read: it
\* is false before the response is accepted and false again once the
\* session has completed, failed (on an error frame or a parse failure
\* too) or been cancelled.
C28_ConnectedOnlyWhileReading ==
  isConnected =>
    \E s \in DOMAIN sessions :
      /\ Newest(s)
      /\ sessions[s].pc = "read"
      /\ ~sessions[s].aborted

(***************************************************************************)
(* AnalysisProgress: the step a progress frame names and its place in     *)
(* STEPS                                                                   *)
(***************************************************************************)
K_step == <<115, 116, 101, 112>>  \* step
\* 'starting'
S_starting ==
  <<115, 116, 97, 114, 116, 105, 110, 103>>
\* 'fetching_drugbank'
S_fetching_drugbank ==
  <<102, 101, 116, 99, 104, 105, 110, 103, 95, 100, 114, 117, 103, 98, 97,
    110, 107>>
\* 'literature_mining'
S_literature_mining ==
  <<108, 105, 116, 101, 114, 97, 116, 117, 114, 101, 95, 109, 105, 110,
    105, 110, 103>>
\* 'extracting_article'
S_extracting_article ==
  <<101, 120, 116, 114, 97, 99, 116, 105, 110, 103, 95, 97, 114, 116, 105,
    99, 108, 101>>
\* 'literature_complete'
S_literature_complete ==
  <<108, 105, 116, 101, 114, 97, 116, 117, 114, 101, 95, 99, 111, 109, 112,
    108, 101, 116, 101>>
\* 'genetics_analysis'
S_genetics_analysis ==
  <<103, 101, 110, 101, 116, 105, 99, 115, 95, 97, 110, 97, 108, 121, 115,
    105, 115>>
\* 'genetics_complete'
S_genetics_complete ==
  <<103, 101, 110, 101, 116, 105, 99, 115, 95, 99, 111, 109, 112, 108, 101,
    116, 101>>
\* 'normalizing'
S_normalizing ==
  <<110, 111, 114, 109, 97, 108, 105, 122, 105, 110, 103>>
\* 'normalization_complete'
S_normalization_complete ==
  <<110, 111, 114, 109, 97, 108, 105, 122, 97, 116, 105, 111, 110, 95, 99,
    111, 109, 112, 108, 101, 116, 101>>
\* 'generating_hypotheses'
S_generating_hypotheses ==
  <<103, 101, 110, 101, 114, 97, 116, 105, 110, 103, 95, 104, 121, 112,
    111, 116, 104, 101, 115, 101, 115>>
\* 'hypotheses_complete'
S_hypotheses_complete ==
  <<104, 121, 112, 111, 116, 104, 101, 115, 101, 115, 95, 99, 111, 109,
    112, 108, 101, 116, 101>>
\* 'constructor', a property every object inherits
S_constructor ==
  <<99, 111, 110, 115, 116, 114, 117, 99, 116, 111, 114>>
\* 'toString', a property every object inherits
S_toString ==
  <<116, 111, 83, 116, 114, 105, 110, 103>>
\* '__proto__', a property every object inherits
S_proto ==
  <<95, 95, 112, 114, 111, 116, 111, 95, 95>>
\* 'unknown_step', a step the map does not hold
S_unknown ==
  <<117, 110, 107, 110, 111, 119, 110, 95, 115, 116, 101, 112>>
\* '[object Object]', the property key of an object
S_objectObject ==
  <<91, 111, 98, 106, 101, 99, 116, 32, 79, 98, 106, 101, 99, 116, 93>>

\* const STEPS = [...]: the step configurations, by their key and label
STEPS ==
  <<[key |-> S_starting, label |-> "Initializing"],
    [key |-> S_literature_mining, label |-> "Literature Mining"],
    [key |-> S_genetics_analysis, label |-> "Genetics Analysis"],
    [key |-> S_normalizing, label |-> "Data Processing"],
    [key |-> S_generating_hypotheses, label |-> "AI Recommendations"]>>

\* const stepMap: Record<string, number> = {...}: its own properties
stepMap ==
  (S_starting :> 0)
    @@ (S_fetching_drugbank :> 0)
    @@ (S_literature_mining :> 1)
    @@ (S_extracting_article :> 1)
    @@ (S_literature_complete :> 1)
    @@ (S_genetics_analysis :> 2)
    @@ (S_genetics_complete :> 2)
    @@ (S_normalizing :> 3)
    @@ (S_normalization_complete :> 3)
    @@ (S_generating_hypotheses :> 4)
    @@ (S_hypotheses_complete :> 4)

\* the properties a plain object inherits from Object.prototype, among
\* them those named here
ObjectPrototype ==
  JObj([k \in {S_constructor, S_toString, S_proto} |-> [t |-> "function"]])

\* the property key a value is converted to: a string is its own key
PropertyKey(v) ==
  CASE v.t = "string" -> v.s
    [] v.t = "number" -> ToDigits(v.n)
    [] v.t = "boolean" -> IF v.b THEN LIT_true ELSE LIT_false
    [] OTHER -> S_objectObject

\* stepMap[step]: an own property, else an inherited one, else undefined
Lookup(key) ==
  IF key \in DOMAIN stepMap THEN JNum(stepMap[key])
  ELSE IF key = S_proto THEN ObjectPrototype
  ELSE Get(ObjectPrototype, key)

\* a ?? b
Coalesce(a, b) == IF a.t \in {"undefined", "null"} THEN b ELSE a

\* function getActiveStep(step: string | undefined): number
getActiveStep(step) ==
  IF ~Truthy(step) THEN JNum(0)
  ELSE Coalesce(Lookup(PropertyKey(step)), JNum(0))

\* STEPS[activeStep]
StepConfig(activeStep) ==
  IF activeStep.t = "number" /\ activeStep.n + 1 \in DOMAIN STEPS
  THEN JObj(STEPS[activeStep.n + 1])
  ELSE JUndef

\* AnalysisProgress is shown and gets past its early returns
RendersProgress == ~isComplete /\ ~Truthy(error) /\ Truthy(data)

\* const activeStep = getActiveStep(progress.step)
activeStep == getActiveStep(Get(data, K_step))

\* const currentStepConfig = STEPS[activeStep]
currentStepConfig == StepConfig(activeStep)

\* data: {"type":"progress","step":"<step>"}
ProgressLine(step) ==
  <<100, 97, 116, 97, 58, 32, 123, 34, 116, 121, 112, 101, 34, 58, 34,
    112, 114, 111, 103, 114, 101, 115, 115, 34, 44, 34, 115, 116, 101,
    112, 34, 58, 34>>
    \o step \o <<34, 125>>

\* data: {"type":"progress","step":7}
L_progressStepNumber ==
  <<100, 97, 116, 97, 58, 32, 123, 34, 116, 121, 112, 101, 34, 58, 34,
    112, 114, 111, 103, 114, 101, 115, 115, 34, 44, 34, 115, 116, 101,
    112, 34, 58, 55, 125>>

\* progress frames whose step is absent, empty, a key of stepMap, a number
\* or another string
StepLines ==
  {ProgressLine(step) :
     step \in DOMAIN stepMap
                \cup {<<>>, S_unknown, S_constructor, S_toString, S_proto}}
    \cup {L_progress, L_progressStepNumber}

StepResponses == ResponsesOf({Flatten(<<l>>) : l \in StepLines})

\* one session whose stream carries one progress frame
NextSteps ==
  \/ FlushEffects
  \/ \E s \in Sessions, resp \in StepResponses : FetchResolves(s, resp)
  \/ \E s \in Sessions, m \in NetworkErrors : FetchRejects(s, m)
  \/ \E s \in Sessions :
       \E k \in 1..(Len(sessions[s].wire) - sessions[s].pos) : ReadChunk(s, k)
  \/ \E s \in Sessions : ReadDone(s)
  \/ \E s \in Sessions, m \in NetworkErrors : ReadFails(s, m)

SpecSteps == InitStream /\ [][NextSteps]_vars

\* C29: getActiveStep returns an integer index in 0..4 for every input
\* (undefined, the empty string, every known step key and every other
\* string), so STEPS[getActiveStep(step)] is a defined step configuration
\* whenever AnalysisProgress renders a progress frame.
C29_ActiveStepInRange ==
  RendersProgress =>
    /\ activeStep.t = "number"
    /\ activeStep.n \in 0..4
    /\ currentStepConfig # JUndef

(***************************************************************************)
(* App: searches, and the hook with App's handlers                         *)
(***************************************************************************)
\* isLoading={sseEnabled && !isComplete}: the submit button is disabled
isLoading == sseEnabled /\ ~isComplete

\* a Retry Analysis button is shown: in the empty-results panel or in the
\* error panel
RetryShown ==
  \/ isComplete /\ ~Truthy(results) /\ Truthy(currentQuery)
  \/ Truthy(error)

\* a handleSearch that leaves the results of the search before in place
handleSearchKeeping(query) ==
  /\ ~effectPending
  /\ currentQuery' = query
  /\ sseEnabled' = TRUE
  /\ props' = Passed(query, TRUE)
  /\ UNCHANGED <<results, effectPending, mounted, handlers>>
  /\ IF Passed(query, TRUE) # props THEN
       /\ Len(sessions) < MaxSessions
       /\ renderIsComplete' = isComplete
       /\ RunEffect(Passed(query, TRUE), isComplete)
     ELSE
       UNCHANGED <<renderIsComplete, cleanupSession, hookState,
                   abortControllerRef, sessions, logs>>

\* handleSearch(query), called on a submit or a click: React renders and
\* runs the effect, if url, body or enabled differ, before the event is over
handleSearch(query) ==
  /\ ~effectPending
  /\ results' = JNull
  /\ currentQuery' = query
  /\ sseEnabled' = TRUE
  /\ props' = Passed(query, TRUE)
  /\ UNCHANGED <<effectPending, mounted, handlers>>
  /\ IF Passed(query, TRUE) # props THEN
       /\ Len(sessions) < MaxSessions
       /\ renderIsComplete' = isComplete
       /\ RunEffect(Passed(query, TRUE), isComplete)
     ELSE
       UNCHANGED <<renderIsComplete, cleanupSession, hookState,
                   abortControllerRef, sessions, logs>>

\* the user submits the search form
Submit(query) == ~isLoading /\ handleSearch(query)

\* the user presses Retry Analysis
Retry == RetryShown /\ Truthy(currentQuery) /\ handleSearch(currentQuery)

InitApp ==
  /\ props = Passed(JNull, FALSE)
  /\ handlers = "App"
  /\ InitHook

\* App and its hook; no session is aborted while it waits, for a search
\* starts only when the session before has ended
NextApp ==
  \/ \E query \in Queries : Submit(query)
  \/ Retry
  \/ FlushEffects
  \/ \E s \in Sessions, resp \in HookResponses : FetchResolves(s, resp)
  \/ \E s \in Sessions, m \in NetworkErrors : FetchRejects(s, m)
  \/ \E s \in Sessions :
       \E k \in 1..(Len(sessions[s].wire) - sessions[s].pos) : ReadChunk(s, k)
  \/ \E s \in Sessions : ReadDone(s)
  \/ \E s \in Sessions, m \in NetworkErrors : ReadFails(s, m)

SpecApp == InitApp /\ [][NextApp]_vars

\* the newest session has ended and App has rendered and run its effects
Settled(s) ==
  /\ Newest(s)
  /\ sessions[s].pc = "done"
  /\ ~effectPending

\* C25: in App, after any way a session can end (a complete frame with or
\* without result, an error frame, a parse failure, an HTTP or network
\* failure, a stream closed without a terminal frame) the user can start
\* another analysis: isLoading (sseEnabled && !isComplete) becomes false,
\* so the submit button does not stay disabled.
C25_LoadingEnds ==
  \A s \in DOMAIN sessions : Settled(s) => ~isLoading

\* C26: in App, pressing Retry Analysis, in the error panel or in the
\* empty-results panel, always starts a new streaming session for
\* currentQuery: in every state in which the button is shown, also one
\* where sseEnabled is still true because no callback turned it off, the
\* render after handleSearch(currentQuery) changes a dependency of the
\* hook's effect, so that the effect runs, resets data, isComplete and
\* error and issues a new POST.
C26_RetryStartsSession ==
  RetryShown /\ Truthy(currentQuery) /\ ~effectPending =>
    Passed(currentQuery, TRUE) # props

\* C27: in App the results shown belong to the latest query: handleSearch
\* clears results before the new session starts, and results is non-null
\* only if the complete frame of the newest session delivered it and that
\* session was issued for currentQuery, never a session of an earlier
\* query, however a completion and a new search interleave.
C27_ResultsOfLatestQuery ==
  /\ results # JNull =>
       \E s \in DOMAIN sessions :
         /\ Newest(s)
         /\ sessions[s].request = sseBody(currentQuery)
         /\ StoppedOn(s, "complete")
         /\ results = Get(StopFrame(s), K_result)
         /\ By(completeCalls, s) = <<results>>
  /\ \A s \in DOMAIN sessions :
       Newest(s) /\ sessions[s].pc # "done" => results = JNull /\ sseEnabled
  /\ \A i \in 1..Len(completeCalls) : completeCalls[i].s = Len(sessions)

\* the second search, for another query, has completed and its result is
\* shown
C27_Witness ==
  /\ Len(sessions) = 2
  /\ currentQuery = JObj([drug |-> "q2"])
  /\ sessions[2].request = "q2"
  /\ sessions[2].closureIsComplete
  /\ results # JNull
  /\ ~sseEnabled
  /\ isComplete

====
